---- MODULE Spec2Model ----
(***************************************************************************)
(* ToDoList: an express/mongoose backend (GET/POST/PUT/DELETE /api/todos)  *)
(* and a browser client (TodoItemFormatter, TodoManager, UIManager).       *)
(*                                                                         *)
(* The model has the store and the route handlers of the backend, the      *)
(* HTTP messages in flight, and the client's cache, inputs, submit button  *)
(* listeners, confirm modal, rendered table and alert banner.              *)
(*                                                                         *)
(* Each await of the client splits a handler in two actions: the part up   *)
(* to the fetch (named after the DOM event) and the continuation that runs *)
(* when the response arrives (Recv...).  A route handler is one action:    *)
(* the store serialises the writes to one document.                        *)
(***************************************************************************)
EXTENDS Integers, Sequences, FiniteSets, TLC

VARIABLES
    store,            \* the todos collection, in insertion order
    nextId,           \* next identifier the store assigns
    clock,            \* Date.now() of the server
    dbUp,             \* the mongoose connection is usable
    deleted,          \* history: some delete or delete-all has succeeded
    lastMut,          \* history: the last successful mutation of the store
    requests,         \* HTTP requests in flight
    responses,        \* HTTP responses in flight
    todos,            \* TodoManager.todos, the client cache
    taskInput,        \* UIManager.taskInput.value
    dateInput,        \* UIManager.dateInput.value
    listeners,        \* click listeners of the current UIManager.addBtn
    addBtnHtml,       \* UIManager.addBtn.innerHTML
    rendered,         \* rows of UIManager.todosListBody
    selectedFilter,   \* history: the filter button clicked last
    modalOpen,        \* #confirm-modal is checked
    modalFor,         \* the action the modal was opened for last
    confirmListeners, \* pending onConfirm listeners of #modal-confirm-btn
    cancelListeners,  \* pending onCancel listeners of #modal-cancel-btn
    alertMsg,         \* UIManager.alertMessage.innerHTML
    alertShown,       \* UIManager.alertMessage has class "show"
    timers,           \* pending setTimeout callbacks of showAlertMessage
    flips             \* history: the record was toggled an odd number of times

serverVars == <<store, nextId, clock, dbUp, deleted, lastMut>>
netVars    == <<requests, responses>>
formVars   == <<taskInput, dateInput, listeners, addBtnHtml>>
modalVars  == <<modalOpen, modalFor, confirmListeners, cancelListeners>>
alertVars  == <<alertMsg, alertShown, timers>>
clientVars == <<todos, formVars, rendered, selectedFilter,
                modalVars, alertVars, flips>>
vars       == <<serverVars, netVars, clientVars>>

----------------------------------------------------------------------------
(* Bounds *)

MaxTodos    == 2   \* records the store ever creates
MaxInFlight == 2   \* requests and responses in flight at once
MaxTimers   == 2   \* pending banner timeouts
MaxDialogs  == 2   \* confirm dialogs whose promise is pending

(* Program constants *)

TruncLen == 14     \* formatTask: task.length > 14 ? task.slice(0, 14) + "..."

----------------------------------------------------------------------------
(* Text: a string is a sequence of one-character strings *)

Rep(c, n)  == [i \in 1..n |-> c]
Ellipsis   == <<".", ".", ".">>
EmptyText  == <<>>
BlankText  == <<" ">>
ShortText  == <<"a">>
LongText   == Rep("a", TruncLen + 1)
PaddedText == <<" ">> \o LongText \o <<" ">>

NoDueDate  == "No due date"

RECURSIVE TrimStart(_)
TrimStart(s) == IF s # <<>> /\ Head(s) = " " THEN TrimStart(Tail(s)) ELSE s

RECURSIVE TrimEnd(_)
TrimEnd(s) ==
    IF s # <<>> /\ s[Len(s)] = " " THEN TrimEnd(SubSeq(s, 1, Len(s) - 1)) ELSE s

trim(s) == TrimEnd(TrimStart(s))

formatTask(task) ==
    IF Len(task) > TruncLen THEN SubSeq(task, 1, TruncLen) \o Ellipsis ELSE task

formatDueDate(dueDate) == IF dueDate = "" THEN NoDueDate ELSE dueDate

formatStatus(completed) == IF completed THEN "Completed" ELSE "Pending"

----------------------------------------------------------------------------
(* JSON bodies: a field that may be undefined is <<>> or <<value>> *)

None     == <<>>
Some(x)  == <<x>>
Body(task, completed, dueDate) ==
    [task |-> task, completed |-> completed, dueDate |-> dueDate]
NoBody   == Body(None, None, None)

Slots    == 1..MaxInFlight
UsedSlots == {m.slot : m \in requests \cup responses}
FreeSlots == Slots \ UsedSlots

\* op, task, gen and html are what the caller's continuation keeps: which
\* method awaits the answer, handleAddTodo's local task, the handleUpdate
\* closure and its originalAddBtnHtml
Request(slot, method, id, body, op, task, gen, html) ==
    [slot |-> slot, method |-> method, id |-> id, body |-> body,
     op |-> op, task |-> task, gen |-> gen, html |-> html]

\* status 0 is a rejected fetch; body is the sequence of records returned
Response(req, status, body) ==
    [slot |-> req.slot, method |-> req.method, op |-> req.op, id |-> req.id,
     task |-> req.task, gen |-> req.gen, html |-> req.html,
     status |-> status, body |-> body]

----------------------------------------------------------------------------
(* Entity store (models/Todo through mongoose) *)

Ids(recs) == {recs[i].id : i \in 1..Len(recs)}

\* Array.prototype.findIndex / Model.findById: 0 when absent
RECURSIVE FindFrom(_, _, _)
FindFrom(recs, id, i) ==
    IF i > Len(recs) THEN 0
    ELSE IF recs[i].id = id THEN i
    ELSE FindFrom(recs, id, i + 1)

findIndex(recs, id) == FindFrom(recs, id, 1)

\* new Todo({task, dueDate}): completed defaults to false, createdAt to now
NewTodo(id, task, dueDate, now) ==
    [id |-> id, task |-> task, dueDate |-> dueDate,
     completed |-> FALSE, createdAt |-> now]

\* schema validation on save: task is required
Validates(task) == task # None

\* insert rec behind the records that are at least as new
RECURSIVE InsertAsc(_, _)
InsertAsc(rec, sorted) ==
    IF sorted = <<>> THEN <<rec>>
    ELSE IF Head(sorted).createdAt <= rec.createdAt
         THEN <<Head(sorted)>> \o InsertAsc(rec, Tail(sorted))
         ELSE <<rec>> \o sorted

RECURSIVE InsertDesc(_, _)
InsertDesc(rec, sorted) ==
    IF sorted = <<>> THEN <<rec>>
    ELSE IF Head(sorted).createdAt >= rec.createdAt
         THEN <<Head(sorted)>> \o InsertDesc(rec, Tail(sorted))
         ELSE <<rec>> \o sorted

\* .sort({ createdAt: -1 }) of the documents in scan order
RECURSIVE SortDesc(_)
SortDesc(recs) ==
    IF recs = <<>> THEN <<>>
    ELSE InsertDesc(recs[Len(recs)], SortDesc(SubSeq(recs, 1, Len(recs) - 1)))

\* Todo.find().sort({createdAt: -1}): the scan order, and with it the order
\* of equal timestamps, is the store's choice
FindSorted ==
    {SortDesc([i \in 1..Len(store) |-> store[p[i]]]) :
        p \in Permutations(1..Len(store))}

PutApplyAll(rec, body) ==
    [rec EXCEPT
       !.task      = IF body.task # None THEN body.task[1] ELSE EmptyText,
       !.completed = IF body.completed # None THEN body.completed[1] ELSE FALSE,
       !.dueDate   = IF body.dueDate # None THEN body.dueDate[1] ELSE ""]

\* if (req.body.X !== undefined) todo.X = req.body.X
PutApply(rec, body) ==
    [rec EXCEPT
       !.task      = IF body.task # None THEN body.task[1] ELSE @,
       !.completed = IF body.completed # None THEN body.completed[1] ELSE @,
       !.dueDate   = IF body.dueDate # None THEN body.dueDate[1] ELSE @]

findByIdOrFirst(id) == IF store = <<>> THEN 0 ELSE 1

\* Todo.findById(id): the position of the document, 0 for null
findById(id) == findIndex(store, id)

DeleteManyCompleted == SelectSeq(store, LAMBDA t : ~t.completed)

\* Todo.deleteMany({}): the collection that is left
DeleteMany == <<>>

\* findByIdAndDelete / Array.prototype.filter(t => t.id !== id)
RemoveId(recs, id) == SelectSeq(recs, LAMBDA t : t.id # id)

Respond(req, status, body) ==
    /\ requests' = requests \ {req}
    /\ responses' = responses \cup {Response(req, status, body)}

StoreUnchanged == UNCHANGED <<store, nextId, clock, deleted, lastMut>>

----------------------------------------------------------------------------
(* HTTP API *)

\* app.get('/api/todos')
GetTodos(req) ==
    /\ req.method = "GET"
    /\ IF dbUp
       THEN \E body \in FindSorted : Respond(req, 200, body)
       ELSE Respond(req, 500, <<>>)
    /\ StoreUnchanged
    /\ UNCHANGED <<dbUp, clientVars>>

\* app.post('/api/todos')
PostTodo(req) ==
    /\ req.method = "POST"
    /\ nextId <= MaxTodos
    /\ IF dbUp /\ Validates(req.body.task)
       THEN \E tick \in {0, 1} :
              LET now == clock + tick
                  dueDate == IF req.body.dueDate = None THEN ""
                             ELSE req.body.dueDate[1]
                  newTodo == NewTodo(nextId, req.body.task[1], dueDate, now)
              IN /\ store' = Append(store, newTodo)
                 /\ nextId' = nextId + 1
                 /\ clock' = now
                 /\ lastMut' = "insert"
                 /\ UNCHANGED deleted
                 /\ Respond(req, 201, <<newTodo>>)
       ELSE /\ Respond(req, 400, <<>>)
            /\ StoreUnchanged
    /\ UNCHANGED <<dbUp, clientVars>>

\* app.put('/api/todos/:id')
PutTodo(req) ==
    /\ req.method = "PUT"
    /\ LET i == findById(req.id)
       IN IF ~dbUp
          THEN Respond(req, 400, <<>>) /\ StoreUnchanged
          ELSE IF i = 0
          THEN Respond(req, 404, <<>>) /\ StoreUnchanged
          ELSE LET updatedTodo == PutApply(store[i], req.body)
               IN /\ store' = [store EXCEPT ![i] = updatedTodo]
                  /\ lastMut' = "update"
                  /\ UNCHANGED <<nextId, clock, deleted>>
                  /\ Respond(req, 200, <<updatedTodo>>)
    /\ UNCHANGED <<dbUp, clientVars>>

\* app.delete('/api/todos/:id')
DeleteTodo(req) ==
    /\ req.method = "DELETE"
    /\ req.id # 0
    /\ LET i == findById(req.id)
       IN IF ~dbUp
          THEN Respond(req, 500, <<>>) /\ StoreUnchanged
          ELSE IF i = 0
          THEN Respond(req, 404, <<>>) /\ StoreUnchanged
          ELSE /\ store' = RemoveId(store, req.id)
               /\ deleted' = TRUE
               /\ lastMut' = "delete"
               /\ UNCHANGED <<nextId, clock>>
               /\ Respond(req, 200, <<>>)
    /\ UNCHANGED <<dbUp, clientVars>>

\* app.delete('/api/todos')
DeleteAllTodos(req) ==
    /\ req.method = "DELETE"
    /\ req.id = 0
    /\ IF dbUp
       THEN /\ store' = DeleteMany
            /\ deleted' = TRUE
            /\ lastMut' = "deleteAll"
            /\ UNCHANGED <<nextId, clock>>
            /\ Respond(req, 200, <<>>)
       ELSE Respond(req, 500, <<>>) /\ StoreUnchanged
    /\ UNCHANGED <<dbUp, clientVars>>

Get       == \E req \in requests : GetTodos(req)
Post      == \E req \in requests : PostTodo(req)
Put       == \E req \in requests : PutTodo(req)
Delete    == \E req \in requests : DeleteTodo(req)
DeleteAll == \E req \in requests : DeleteAllTodos(req)

----------------------------------------------------------------------------
(* Initial state *)

\* what earlier sessions left in the collection: records 1..n, created in
\* that order, some of them completed
InitStores ==
    UNION {{[i \in 1..n |->
               [id |-> i, task |-> ShortText, dueDate |-> NoDueDate,
                completed |-> c[i], createdAt |-> i]] :
              c \in [1..n -> BOOLEAN]} : n \in 0..MaxTodos}

ServerInit ==
    /\ store \in InitStores
    /\ nextId = Len(store) + 1
    /\ clock = Len(store)
    /\ dbUp = TRUE
    /\ deleted = FALSE
    /\ lastMut = "none"

AddListener == [kind |-> "add", id |-> 0, gen |-> 0, html |-> "add"]

ClientInit ==
    /\ todos = <<>>
    /\ taskInput = EmptyText
    /\ dateInput = ""
    /\ listeners = <<AddListener>>
    /\ addBtnHtml = "add"
    /\ rendered = <<>>
    /\ selectedFilter = "all"
    /\ modalOpen = FALSE
    /\ modalFor = [op |-> "none", id |-> 0]
    /\ confirmListeners = <<>>
    /\ cancelListeners = <<>>
    /\ alertMsg = ""
    /\ alertShown = FALSE
    /\ timers = 0
    /\ flips = [id \in 1..MaxTodos |-> FALSE]

----------------------------------------------------------------------------
(* The HTTP API on its own: one caller issuing any request, one at a time *)

ApiTasks    == {ShortText, LongText}
ApiDates    == {"2024-01-01"}
ApiIds      == 1..(MaxTodos + 1)
Opt(S)      == {None} \cup {Some(x) : x \in S}
ApiBodies   == {Body(t, c, d) : t \in Opt(ApiTasks), c \in Opt(BOOLEAN),
                                d \in Opt(ApiDates)}

ApiRequests ==
    {Request(1, "GET", 0, NoBody, "api", EmptyText, 0, "add")}
      \cup {Request(1, "POST", 0, b, "api", EmptyText, 0, "add") : b \in ApiBodies}
      \cup {Request(1, "PUT", i, b, "api", EmptyText, 0, "add") :
                i \in ApiIds, b \in ApiBodies}
      \cup {Request(1, "DELETE", i, NoBody, "api", EmptyText, 0, "add") :
                i \in {0} \cup ApiIds}

ApiSend ==
    /\ requests = {} /\ responses = {}
    /\ \E req \in ApiRequests : requests' = {req}
    /\ UNCHANGED <<responses, serverVars, clientVars>>

ApiRecv ==
    /\ \E resp \in responses : responses' = responses \ {resp}
    /\ UNCHANGED <<requests, serverVars, clientVars>>

\* connectivity to the store is lost or comes back
DbToggle ==
    /\ dbUp' = ~dbUp
    /\ UNCHANGED <<store, nextId, clock, deleted, lastMut, netVars, clientVars>>

\* a new, empty collection
ApiInit ==
    /\ ServerInit /\ store = <<>>
    /\ ClientInit
    /\ requests = {} /\ responses = {}

ApiNext ==
    ApiSend \/ Get \/ Post \/ Put \/ Delete \/ DeleteAll \/ ApiRecv \/ DbToggle

ApiSpec == ApiInit /\ [][ApiNext]_vars

----------------------------------------------------------------------------
(* Client Data Manager: TodoManager *)

filterTodosSwapped(cache, status) ==
    CASE status = "all"       -> cache
      [] status = "pending"   -> SelectSeq(cache, LAMBDA t : t.completed)
      [] status = "completed" -> SelectSeq(cache, LAMBDA t : ~t.completed)
      [] OTHER                -> <<>>

\* filterTodos(status) on this.todos = cache
filterTodos(cache, status) ==
    CASE status = "all"       -> cache
      [] status = "pending"   -> SelectSeq(cache, LAMBDA t : ~t.completed)
      [] status = "completed" -> SelectSeq(cache, LAMBDA t : t.completed)
      [] OTHER                -> <<>>

Ok(resp) == resp.status >= 200 /\ resp.status <= 299

\* const index = this.todos.findIndex(...);
\* if (index !== -1) this.todos[index] = updatedTodo
Splice(recs, id, updatedTodo) ==
    LET index == findIndex(recs, id)
    IN IF index # 0 THEN [recs EXCEPT ![index] = updatedTodo] ELSE recs

\* the free slots in increasing order
FreeSeq ==
    [k \in 1..Cardinality(FreeSlots) |->
        CHOOSE s \in FreeSlots : Cardinality({t \in FreeSlots : t < s}) = k - 1]

\* fetch(...) of each call in calls, in order
Fetch(calls) ==
    /\ Len(calls) <= Cardinality(FreeSlots)
    /\ requests' = requests \cup
          {Request(FreeSeq[k], calls[k].method, calls[k].id, calls[k].body,
                   calls[k].op, calls[k].task, calls[k].gen, calls[k].html) :
              k \in 1..Len(calls)}
    /\ UNCHANGED responses

Call(method, id, body, op, task, gen, html) ==
    [method |-> method, id |-> id, body |-> body, op |-> op, task |-> task,
     gen |-> gen, html |-> html]

\* addTodo(task, dueDate) up to its fetch
addTodo(task, dueDate) ==
    Call("POST", 0, Body(Some(formatTask(task)), None,
                         Some(formatDueDate(dueDate))), "add", task, 0, "add")

\* editTodo(id, updatedTask) up to its fetch
editTodo(id, updatedTask, gen, html) ==
    Call("PUT", id, Body(Some(updatedTask), None, None), "edit", EmptyText,
         gen, html)

\* toggleTodoStatus(id) up to its fetch, for the cached todo
toggleTodoStatus(todo) ==
    Call("PUT", todo.id, Body(None, Some(~todo.completed), None), "toggle",
         EmptyText, 0, "add")

\* deleteTodo(id) up to its fetch
deleteTodo(id) == Call("DELETE", id, NoBody, "delete", EmptyText, 0, "add")

\* clearAllTodos() up to its fetch
clearAllTodos == Call("DELETE", 0, NoBody, "clear", EmptyText, 0, "add")

----------------------------------------------------------------------------
(* View Renderer: UIManager *)

InputTexts == {EmptyText, BlankText, ShortText, PaddedText}
DateInputs == {"", "2024-01-01"}
Statuses   == {"all", "pending", "completed"}

\* showAlertMessage(message, type), n times in a row
ShowAlerts(message, n) ==
    /\ timers + n <= MaxTimers
    /\ alertMsg' = message
    /\ alertShown' = TRUE
    /\ timers' = timers + n

showAlertMessage(message) == ShowAlerts(message, 1)

\* the rows displayTodos writes; no row stands for "No task found"
displayTodos(list) ==
    [i \in 1..Len(list) |->
        [id |-> list[i].id,
         task |-> formatTask(list[i].task),
         dueDate |-> formatDueDate(list[i].dueDate),
         status |-> formatStatus(list[i].completed)]]

\* showAllTodos() when this.todos = cache
showAllTodos(cache) == rendered' = displayTodos(filterTodos(cache, "all"))

RenderedIds == {rendered[i].id : i \in 1..Len(rendered)}

RECURSIVE CallsUntrimmed(_)
CallsUntrimmed(ls) ==
    IF ls = <<>> THEN <<>>
    ELSE LET l == Head(ls)
             call == IF l.kind = "update"
                     THEN <<editTodo(l.id, taskInput, l.gen, l.html)>>
                     ELSE IF taskInput = EmptyText THEN <<>>
                     ELSE <<addTodo(taskInput, dateInput)>>
         IN call \o CallsUntrimmed(Tail(ls))

\* the calls the listeners ls make when an event is dispatched to them:
\* handleAddTodo with a non-empty task, handleUpdate always
RECURSIVE Calls(_)
Calls(ls) ==
    IF ls = <<>> THEN <<>>
    ELSE LET l == Head(ls)
             call == IF l.kind = "update"
                     THEN <<editTodo(l.id, taskInput, l.gen, l.html)>>
                     ELSE IF trim(taskInput) = EmptyText THEN <<>>
                     ELSE <<addTodo(trim(taskInput), dateInput)>>
         IN call \o Calls(Tail(ls))

\* the handleAddTodo calls among ls that find the task empty
Refusals(ls) ==
    IF trim(taskInput) = EmptyText
    THEN Len(SelectSeq(ls, LAMBDA l : l.kind = "add")) ELSE 0

\* a click or keyup event dispatched to the listeners ls
Dispatch(ls) ==
    /\ Fetch(Calls(ls))
    /\ IF Refusals(ls) > 0
       THEN ShowAlerts("Please enter a task", Refusals(ls))
       ELSE UNCHANGED alertVars
    /\ UNCHANGED <<serverVars, todos, formVars, rendered, selectedFilter, flips,
                   modalVars>>

\* the user edits the task input
TypeTask ==
    /\ \E text \in InputTexts : text # taskInput /\ taskInput' = text
    /\ UNCHANGED <<serverVars, netVars, todos, dateInput, listeners,
                   addBtnHtml, rendered, selectedFilter, flips, modalVars, alertVars>>

\* the user edits the date input
TypeDate ==
    /\ \E date \in DateInputs : date # dateInput /\ dateInput' = date
    /\ UNCHANGED <<serverVars, netVars, todos, taskInput, listeners,
                   addBtnHtml, rendered, selectedFilter, flips, modalVars, alertVars>>

\* click on this.addBtn
ClickAddBtn ==
    /\ listeners # <<>>
    /\ Dispatch(listeners)

\* the handleAddTodo calls of the keyup listener when keyCode is 13:
\* if (e.keyCode === 13 && this.taskInput.value.length > 0) handleAddTodo()
EnterListeners == IF Len(taskInput) > 0 THEN <<AddListener>> ELSE <<>>

\* keyup with keyCode 13 in this.taskInput
PressEnter ==
    /\ EnterListeners # <<>>
    /\ Dispatch(EnterListeners)

\* closures of handleUpdate that can still run
LiveGens == {m.gen : m \in {x \in requests \cup responses : x.op = "edit"}}
FreshGen == CHOOSE g \in 1..(MaxInFlight + 1) :
                /\ g \notin LiveGens
                /\ \A h \in 1..(g - 1) : h \in LiveGens

\* handleEditTodo(id), from the edit button of a rendered row
ClickEdit(id) ==
    /\ id \in RenderedIds
    /\ findIndex(todos, id) # 0
    /\ LET todo == todos[findIndex(todos, id)]
           handleUpdate == [kind |-> "update", id |-> id, gen |-> FreshGen,
                            html |-> addBtnHtml]
       IN /\ taskInput' = todo.task
          /\ dateInput' = IF todo.dueDate = NoDueDate THEN "" ELSE todo.dueDate
          /\ addBtnHtml' = "check"
          /\ listeners' = <<handleUpdate>>
    /\ UNCHANGED <<serverVars, netVars, todos, rendered,
                   selectedFilter, flips, modalVars, alertVars>>

\* handleToggleStatus(id), from the toggle button of a rendered row
ClickToggle(id) ==
    /\ id \in RenderedIds
    /\ IF findIndex(todos, id) # 0
       THEN /\ Fetch(<<toggleTodoStatus(todos[findIndex(todos, id)])>>)
            /\ flips' = [flips EXCEPT ![id] = ~@]
            /\ UNCHANGED rendered
       ELSE /\ showAllTodos(todos)
            /\ UNCHANGED <<netVars, flips>>
    /\ UNCHANGED <<serverVars, todos, formVars, selectedFilter, modalVars,
                   alertVars>>

\* handleFilterTodos(status), from a filter button
ClickFilter(status) ==
    /\ rendered' = displayTodos(filterTodos(todos, status))
    /\ selectedFilter' = status
    /\ UNCHANGED <<serverVars, netVars, todos, formVars, modalVars,
                   alertVars, flips>>

\* the setTimeout callback of showAlertMessage
HideAlert ==
    /\ timers > 0
    /\ timers' = timers - 1
    /\ alertShown' = FALSE
    /\ UNCHANGED <<serverVars, netVars, todos, formVars, rendered,
                   selectedFilter, flips, modalVars, alertMsg>>

\* dialogs whose promise is still pending are numbered 1..MaxDialogs
PendingDialogs ==
    {confirmListeners[i].dlg : i \in 1..Len(confirmListeners)} \cup
    {cancelListeners[i].dlg : i \in 1..Len(cancelListeners)}
FreshDialog == CHOOSE d \in 1..MaxDialogs :
                   /\ d \notin PendingDialogs
                   /\ \A e \in 1..(d - 1) : e \in PendingDialogs

\* showConfirmModal(title, message) up to the returned promise
showConfirmModal(op, id) ==
    /\ Cardinality(PendingDialogs) < MaxDialogs
    /\ modalOpen' = TRUE
    /\ modalFor' = [op |-> op, id |-> id]
    /\ confirmListeners' =
          Append(confirmListeners, [op |-> op, id |-> id, dlg |-> FreshDialog])
    /\ cancelListeners' =
          Append(cancelListeners, [op |-> op, id |-> id, dlg |-> FreshDialog])

\* handleDeleteTodo(id) up to the dialog, from the delete button of a row
ClickDelete(id) ==
    /\ id \in RenderedIds
    /\ showConfirmModal("delete", id)
    /\ UNCHANGED <<serverVars, netVars, todos, formVars, rendered,
                   selectedFilter, flips, alertVars>>

\* handleClearAllTodos() up to the dialog, from this.deleteAllBtn
ClickDeleteAll ==
    /\ showConfirmModal("clear", 0)
    /\ UNCHANGED <<serverVars, netVars, todos, formVars, rendered,
                   selectedFilter, flips, alertVars>>

\* the calls of the handlers whose dialog resolves to true
RECURSIVE Confirmed(_)
Confirmed(ls) ==
    IF ls = <<>> THEN <<>>
    ELSE <<IF Head(ls).op = "delete" THEN deleteTodo(Head(ls).id)
           ELSE clearAllTodos>> \o Confirmed(Tail(ls))

\* click on #modal-confirm-btn: every pending onConfirm runs, once
ModalConfirm ==
    /\ modalOpen
    /\ modalOpen' = FALSE
    /\ cancelListeners' =
          SelectSeq(cancelListeners,
                    LAMBDA c : \A i \in 1..Len(confirmListeners) :
                                  confirmListeners[i].dlg # c.dlg)
    /\ confirmListeners' = <<>>
    /\ Fetch(Confirmed(confirmListeners))
    /\ UNCHANGED <<serverVars, todos, formVars, rendered, selectedFilter, flips,
                   modalFor, alertVars>>

\* click on #modal-cancel-btn: every pending onCancel runs, once
ModalCancel ==
    /\ modalOpen
    /\ modalOpen' = FALSE
    /\ confirmListeners' =
          SelectSeq(confirmListeners,
                    LAMBDA c : \A i \in 1..Len(cancelListeners) :
                                  cancelListeners[i].dlg # c.dlg)
    /\ cancelListeners' = <<>>
    /\ UNCHANGED <<serverVars, netVars, todos, formVars, rendered,
                   selectedFilter, flips, modalFor, alertVars>>

----------------------------------------------------------------------------
(* The network, and the continuations of the client's fetches *)

\* the fetch promise is rejected: the request never reaches the server
FetchReject ==
    /\ \E req \in requests :
          /\ req.op # "api"
          /\ requests' = requests \ {req}
          /\ responses' = responses \cup {Response(req, 0, <<>>)}
    /\ UNCHANGED <<serverVars, clientVars>>

Take(resp, op) ==
    /\ resp.op = op
    /\ responses' = responses \ {resp}
    /\ UNCHANGED requests

\* refreshUI after fetchTodos
RecvFetch(resp) ==
    /\ Take(resp, "fetch")
    /\ IF Ok(resp)
       THEN /\ todos' = resp.body
            /\ showAllTodos(todos')
            /\ UNCHANGED alertVars
       ELSE /\ showAlertMessage("Failed to connect to the backend server. Is it running?")
            /\ UNCHANGED <<todos, rendered>>
    /\ UNCHANGED <<serverVars, formVars, selectedFilter, flips, modalVars>>

\* handleAddTodo after addTodo
RecvAdd(resp) ==
    /\ Take(resp, "add")
    /\ IF Ok(resp)
       THEN /\ todos' = <<resp.body[1]>> \o todos
            /\ showAllTodos(todos')
            /\ taskInput' = EmptyText
            /\ dateInput' = ""
            /\ showAlertMessage("Task added successfully")
       ELSE /\ showAlertMessage("Failed to add task. Please check your connection.")
            /\ UNCHANGED <<todos, rendered, taskInput, dateInput>>
    /\ UNCHANGED <<serverVars, listeners, addBtnHtml, selectedFilter, flips, modalVars>>

\* this.addBtn.removeEventListener("click", handleUpdate);
\* this.addBtn.addEventListener("click", () => this.handleAddTodo())
RestoreListeners(ls, gen) ==
    Append(SelectSeq(ls, LAMBDA l : ~(l.kind = "update" /\ l.gen = gen)),
           AddListener)

\* handleUpdate after editTodo
RecvEdit(resp) ==
    /\ Take(resp, "edit")
    /\ IF Ok(resp)
       THEN /\ todos' = Splice(todos, resp.id, resp.body[1])
            /\ addBtnHtml' = resp.html
            /\ showAlertMessage("Todo updated successfully")
            /\ showAllTodos(todos')
            /\ taskInput' = EmptyText
            /\ dateInput' = ""
            /\ listeners' = RestoreListeners(listeners, resp.gen)
       ELSE /\ showAlertMessage("Failed to update task. Please try again.")
            /\ UNCHANGED <<todos, rendered, formVars>>
    /\ UNCHANGED <<serverVars, selectedFilter, flips, modalVars>>

RecvToggleSilent(resp) ==
    /\ Take(resp, "toggle")
    /\ IF Ok(resp)
       THEN /\ todos' = Splice(todos, resp.id, resp.body[1])
            /\ showAllTodos(todos')
       ELSE UNCHANGED <<todos, rendered>>
    /\ UNCHANGED <<serverVars, formVars, selectedFilter, flips, modalVars, alertVars>>

\* handleToggleStatus after toggleTodoStatus
RecvToggle(resp) ==
    /\ Take(resp, "toggle")
    /\ IF Ok(resp)
       THEN /\ todos' = Splice(todos, resp.id, resp.body[1])
            /\ showAllTodos(todos')
            /\ UNCHANGED alertVars
       ELSE /\ showAlertMessage("Failed to update status. Please try again.")
            /\ UNCHANGED <<todos, rendered>>
    /\ UNCHANGED <<serverVars, formVars, selectedFilter, flips, modalVars>>

RecvDeleteAlways(resp) ==
    /\ Take(resp, "delete")
    /\ todos' = RemoveId(todos, resp.id)
    /\ showAllTodos(todos')
    /\ IF Ok(resp)
       THEN showAlertMessage("Todo deleted successfully")
       ELSE showAlertMessage("Failed to delete task. Please try again.")
    /\ UNCHANGED <<serverVars, formVars, selectedFilter, flips, modalVars>>

\* handleDeleteTodo after deleteTodo
RecvDelete(resp) ==
    /\ Take(resp, "delete")
    /\ IF Ok(resp)
       THEN /\ todos' = RemoveId(todos, resp.id)
            /\ showAlertMessage("Todo deleted successfully")
            /\ showAllTodos(todos')
       ELSE /\ showAlertMessage("Failed to delete task. Please try again.")
            /\ UNCHANGED <<todos, rendered>>
    /\ UNCHANGED <<serverVars, formVars, selectedFilter, flips, modalVars>>

\* handleClearAllTodos after clearAllTodos
RecvClear(resp) ==
    /\ Take(resp, "clear")
    /\ IF Ok(resp)
       THEN /\ todos' = <<>>
            /\ showAllTodos(todos')
            /\ showAlertMessage("All todos cleared successfully")
       ELSE /\ showAlertMessage("Failed to clear todos. Please try again.")
            /\ UNCHANGED <<todos, rendered>>
    /\ UNCHANGED <<serverVars, formVars, selectedFilter, flips, modalVars>>

OnFetch  == \E resp \in responses : RecvFetch(resp)
OnAdd    == \E resp \in responses : RecvAdd(resp)
OnEdit   == \E resp \in responses : RecvEdit(resp)
OnToggle == \E resp \in responses : RecvToggle(resp)
OnDelete == \E resp \in responses : RecvDelete(resp)
OnClear  == \E resp \in responses : RecvClear(resp)

Edit      == \E id \in 1..MaxTodos : ClickEdit(id)
Toggle    == \E id \in 1..MaxTodos : ClickToggle(id)
DeleteOne == \E id \in 1..MaxTodos : ClickDelete(id)
Filter    == \E status \in Statuses : ClickFilter(status)

\* new UIManager(...): the listeners are added and refreshUI has called fetch
Init ==
    /\ ServerInit
    /\ ClientInit
    /\ requests = {Request(1, "GET", 0, NoBody, "fetch", EmptyText, 0, "add")}
    /\ responses = {}

\* the whole system; the properties are checked under the scenarios below
Next ==
    \/ TypeTask \/ TypeDate \/ ClickAddBtn \/ PressEnter
    \/ Edit \/ Toggle \/ DeleteOne \/ ClickDeleteAll \/ Filter
    \/ ModalConfirm \/ ModalCancel
    \/ Get \/ Post \/ Put \/ Delete \/ DeleteAll
    \/ FetchReject
    \/ OnFetch \/ OnAdd \/ OnEdit \/ OnToggle \/ OnDelete \/ OnClear
    \/ HideAlert

Spec == Init /\ [][Next]_vars

\* a new, empty collection, and a user who only adds tasks
AddNext ==
    \/ TypeTask \/ ClickAddBtn \/ PressEnter
    \/ Get \/ Post \/ FetchReject \/ OnFetch \/ OnAdd \/ HideAlert

AddInit == Init /\ store = <<>>

AddSpec == AddInit /\ [][AddNext]_vars

\* one record in the collection, and a user who edits it in place and clicks
\* the submit button
EditNext ==
    \/ ClickAddBtn \/ Edit
    \/ Get \/ Put \/ FetchReject
    \/ OnFetch \/ OnEdit \/ HideAlert

EditInit == Init /\ Len(store) = 1

EditSpec == EditInit /\ [][EditNext]_vars

\* the user toggles tasks and selects filters
FilterNext ==
    \/ Toggle \/ Filter
    \/ Get \/ Put \/ FetchReject
    \/ OnFetch \/ OnToggle \/ HideAlert

FilterSpec == Init /\ [][FilterNext]_vars

\* the collections the page can have loaded: up to MaxTodos records with
\* distinct identifiers, short or long tasks, some completed
LoadedStores ==
    UNION {{[i \in 1..n |->
               [id |-> f[i], task |-> t[i], dueDate |-> NoDueDate,
                completed |-> c[i], createdAt |-> i]] :
              f \in {g \in [1..n -> 1..MaxTodos] :
                        \A i, j \in 1..n : i # j => g[i] # g[j]},
              t \in [1..n -> {ShortText, LongText}],
              c \in [1..n -> BOOLEAN]} : n \in 0..MaxTodos}

\* refreshUI has completed: the cache and the table hold the collection
ViewInit ==
    /\ store \in LoadedStores
    /\ nextId = MaxTodos + 1
    /\ clock = Len(store)
    /\ dbUp = TRUE
    /\ deleted = FALSE
    /\ lastMut = "none"
    /\ requests = {} /\ responses = {}
    /\ todos = SortDesc(store)
    /\ rendered = displayTodos(todos)
    /\ taskInput = EmptyText /\ dateInput = ""
    /\ listeners = <<AddListener>> /\ addBtnHtml = "add"
    /\ selectedFilter = "all"
    /\ modalOpen = FALSE /\ modalFor = [op |-> "none", id |-> 0]
    /\ confirmListeners = <<>> /\ cancelListeners = <<>>
    /\ alertMsg = "" /\ alertShown = FALSE /\ timers = 0
    /\ flips = [id \in 1..MaxTodos |-> FALSE]

\* the user only selects filters on the loaded list
ViewSpec == ViewInit /\ [][Filter]_vars

\* the user deletes tasks, one or all
DeleteNext ==
    \/ DeleteOne \/ ClickDeleteAll \/ ModalConfirm \/ ModalCancel
    \/ Get \/ Delete \/ DeleteAll \/ FetchReject
    \/ OnFetch \/ OnDelete \/ OnClear \/ HideAlert

DeleteSpec == Init /\ [][DeleteNext]_vars

\* the user types a short task over what the input holds
TypeShort ==
    /\ taskInput # ShortText
    /\ taskInput' = ShortText
    /\ UNCHANGED <<serverVars, netVars, todos, dateInput, listeners,
                   addBtnHtml, rendered, selectedFilter, flips, modalVars, alertVars>>

\* one record in the collection, and a user who edits it in place, types a
\* short task and submits by click or by the Enter key; the POSTs are lost
\* on the way, so that the collection keeps its one record
SubmitNext ==
    \/ TypeShort \/ ClickAddBtn \/ PressEnter \/ Edit
    \/ Get \/ Put \/ FetchReject
    \/ OnFetch \/ OnEdit \/ OnAdd \/ HideAlert

SubmitSpec == EditInit /\ [][SubmitNext]_vars

\* the page has loaded an empty collection
BlankInit ==
    /\ ServerInit /\ store = <<>>
    /\ ClientInit
    /\ requests = {} /\ responses = {}

\* the user types any text, also none or blanks, and submits it by click
\* or by the Enter key
BlankNext ==
    \/ TypeTask \/ ClickAddBtn \/ PressEnter
    \/ Post \/ OnAdd \/ HideAlert

BlankSpec == BlankInit /\ [][BlankNext]_vars

\* no record of the collection is completed
ToggleInit ==
    /\ Init
    /\ store # <<>>
    /\ \A i \in 1..Len(store) : ~store[i].completed

\* the user toggles tasks, and every request is served
ToggleNext == Toggle \/ Get \/ Put \/ OnFetch \/ OnToggle

ToggleSpec == ToggleInit /\ [][ToggleNext]_vars

\* connectivity to the store is lost for good
DbDown ==
    /\ dbUp
    /\ dbUp' = FALSE
    /\ UNCHANGED <<store, nextId, clock, deleted, lastMut, netVars, clientVars>>

\* the backend is down and no fetch of the client is pending
Outage == ~dbUp /\ requests = {} /\ responses = {}

\* one record in the collection, a backend that goes down at some moment and
\* a network that loses requests; during the outage the user tries every
\* operation, one after the other
FailNext ==
    \/ Outage /\ TypeTask
    \/ Outage /\ ClickAddBtn
    \/ Outage /\ Edit
    \/ Outage /\ Toggle
    \/ Outage /\ DeleteOne
    \/ Outage /\ ClickDeleteAll
    \/ ModalConfirm \/ ModalCancel
    \/ Get \/ Post \/ Put \/ Delete \/ DeleteAll
    \/ FetchReject \/ DbDown
    \/ OnFetch \/ OnAdd \/ OnEdit \/ OnToggle \/ OnDelete \/ OnClear
    \/ HideAlert

FailInit == Init /\ Len(store) = 1

FailSpec == FailInit /\ [][FailNext]_vars

----------------------------------------------------------------------------
(* Properties of the HTTP API *)

\* the requests a step takes off the wire, and the answer to one of them
Handled == requests \ requests'
Answers(req) == {p \in responses' \ responses : p.slot = req.slot}

\* C5: a PUT on an existing id sets exactly the fields of task, completed,
\* dueDate that the body has to the given values, leaves the record's other
\* fields (identifier and creation timestamp too) and every other record as
\* they were, and answers 200 with the updated record.
C5_UpdateOnlyPresentFields ==
    [][\A req \in Handled :
         (req.method = "PUT" /\ dbUp /\ req.id \in Ids(store)) =>
           /\ Len(store') = Len(store)
           /\ \A i \in 1..Len(store) :
                IF store[i].id # req.id THEN store'[i] = store[i]
                ELSE /\ store'[i].id = store[i].id
                     /\ store'[i].createdAt = store[i].createdAt
                     /\ store'[i].task =
                          IF req.body.task = None THEN store[i].task
                          ELSE req.body.task[1]
                     /\ store'[i].completed =
                          IF req.body.completed = None THEN store[i].completed
                          ELSE req.body.completed[1]
                     /\ store'[i].dueDate =
                          IF req.body.dueDate = None THEN store[i].dueDate
                          ELSE req.body.dueDate[1]
                     /\ \E p \in Answers(req) :
                          p.status = 200 /\ p.body = <<store'[i]>>]_vars

\* a record that was completed by a body of {completed: true} alone and kept
\* its long task and its due date
C5_Witness ==
    \E p \in responses :
        /\ p.method = "PUT" /\ p.status = 200
        /\ lastMut = "update"
        /\ p.body[1].completed
        /\ p.body[1].task = LongText
        /\ p.body[1].dueDate = "2024-01-01"
        /\ Len(store) = MaxTodos

\* C6: a PUT or a DELETE on an identifier that is not in the store answers
\* 404 and leaves the store as it was.
C6_NotFoundLeavesStore ==
    [][\A req \in Handled :
         (req.method \in {"PUT", "DELETE"} /\ req.id # 0 /\ dbUp
            /\ req.id \notin Ids(store)) =>
           /\ store' = store
           /\ \E p \in Answers(req) : p.status = 404]_vars

\* a 404 answer while the store holds records
C6_Witness ==
    \E p \in responses :
        /\ p.status = 404
        /\ p.id \notin Ids(store)
        /\ store # <<>>

\* C7: DELETE /todos answers 200 and leaves no record, whatever the store
\* held (nothing included); a GET /todos that is handled while delete-all is
\* the last successful mutation returns the empty sequence.
C7_DeleteAllEmpties ==
    [][\A req \in Handled :
         /\ (req.method = "DELETE" /\ req.id = 0 /\ dbUp) =>
               /\ store' = <<>>
               /\ \E p \in Answers(req) : p.status = 200
         /\ (req.method = "GET" /\ dbUp /\ lastMut = "deleteAll") =>
               \E p \in Answers(req) : p.status = 200 /\ p.body = <<>>]_vars

\* an empty list returned after records were inserted and all deleted
C7_Witness ==
    \E p \in responses :
        /\ p.method = "GET" /\ p.status = 200 /\ p.body = <<>>
        /\ lastMut = "deleteAll"
        /\ nextId > MaxTodos

IsSortedDesc(recs) ==
    \A i \in 1..Len(recs) - 1 : recs[i].createdAt >= recs[i + 1].createdAt

\* the store numbers its records from 1, so it has inserted nextId - 1
NumInserted == nextId - 1

\* C9: while no delete has succeeded, GET /todos returns as many records as
\* were inserted, each once, newest creation timestamp first; every insert
\* answers 201 with a record that is not completed.
C9_ListAfterInserts ==
    [][\A req \in Handled :
         /\ (req.method = "GET" /\ dbUp /\ ~deleted) =>
               \E p \in Answers(req) :
                  /\ p.status = 200
                  /\ Len(p.body) = NumInserted
                  /\ Ids(p.body) = 1..NumInserted
                  /\ IsSortedDesc(p.body)
         /\ (req.method = "POST" /\ dbUp /\ req.body.task # None) =>
               \E p \in Answers(req) :
                  /\ p.status = 201
                  /\ ~p.body[1].completed
                  /\ p.body[1].id \notin Ids(store)
                  /\ p.body[1].createdAt >= clock]_vars

\* a list of all the records inserted, with two different timestamps
C9_Witness ==
    \E p \in responses :
        /\ p.method = "GET" /\ p.status = 200
        /\ ~deleted
        /\ Len(p.body) = MaxTodos
        /\ p.body[1].createdAt > p.body[Len(p.body)].createdAt

----------------------------------------------------------------------------
(* Properties of the client *)

\* C1: the record POST /todos persists for an add has, as its task, the
\* trimmed text that handleAddTodo read from the input, whatever its length.
C1_StoredTaskNotTruncated ==
    [][\A req \in Handled :
         (req.op = "add" /\ \E p \in Answers(req) : p.status = 201) =>
            /\ Len(store') = Len(store) + 1
            /\ store'[Len(store')].task = req.task]_vars

\* C2: whenever no request of the client is in flight and no response is
\* waiting for it, the cache is a result list() can return for the store.
C2_CacheInSync ==
    (requests = {} /\ responses = {}) => todos \in FindSorted

\* C3: the submit button has exactly one click listener in every state:
\* handleAddTodo, or the handleUpdate of one record.
C3_OneClickBehaviour == Len(listeners) = 1

\* the responses a step hands to the client
Taken == responses \ responses'

\* C4: after an add, edit, toggle, delete or delete-all has succeeded, the
\* table shows filterTodos(s) of the cache for the filter s selected last.
C4_RenderUsesSelectedFilter ==
    [][\A resp \in Taken :
         (Ok(resp) /\ resp.op \in {"add", "edit", "toggle", "delete", "clear"})
            => rendered' = displayTodos(filterTodos(todos', selectedFilter'))]_vars

\* the elements of seq at the positions in idx, in increasing position
Pick(seq, idx) ==
    [k \in 1..Cardinality(idx) |->
        seq[CHOOSE i \in idx : Cardinality({j \in idx : j < i}) = k - 1]]

\* C8: filterTodos("pending") is the cache's records with completed=false in
\* cache order, filterTodos("completed") those with completed=true in cache
\* order, filterTodos("all") the cache; each record is in exactly one of
\* pending and completed; a click on a filter button leaves the cache as it was.
C8_FilterPartitions ==
    /\ [](LET pendingAt   == {i \in 1..Len(todos) : ~todos[i].completed}
              completedAt == {i \in 1..Len(todos) : todos[i].completed}
          IN /\ filterTodos(todos, "pending") = Pick(todos, pendingAt)
             /\ filterTodos(todos, "completed") = Pick(todos, completedAt)
             /\ filterTodos(todos, "all") = todos
             /\ Len(filterTodos(todos, "pending"))
                  + Len(filterTodos(todos, "completed")) = Len(todos))
    /\ [][selectedFilter' # selectedFilter => todos' = todos]_vars

\* the pending view of a cache that holds a completed and a pending record
C8_Witness ==
    /\ selectedFilter = "pending"
    /\ Len(todos) = MaxTodos
    /\ \E i, j \in 1..Len(todos) : todos[i].completed /\ ~todos[j].completed
    /\ Len(rendered) < Len(todos)
    /\ Len(rendered) > 0
    /\ \A i \in 1..Len(rendered) : rendered[i].status = "Pending"

\* the requests a step puts on the wire
Sent == requests' \ requests

\* C10: a DELETE is sent only by a confirm in the dialog that was opened for
\* that very action; a cancel sends nothing and changes neither cache nor
\* store.
C10_DeleteOnlyByOwnDialog ==
    [][/\ \A req \in Sent :
             req.method = "DELETE" =>
                modalOpen /\ modalFor = [op |-> req.op, id |-> req.id]
       /\ (modalOpen /\ ~modalOpen' /\ confirmListeners' = confirmListeners
             /\ confirmListeners # <<>>) =>
                UNCHANGED <<requests, todos, store>>]_vars

----------------------------------------------------------------------------
(* Properties of the client's error handling *)

\* the banner each handler shows in its catch block
ErrorBanner(op) ==
    CASE op = "fetch"  -> "Failed to connect to the backend server. Is it running?"
      [] op = "add"    -> "Failed to add task. Please check your connection."
      [] op = "edit"   -> "Failed to update task. Please try again."
      [] op = "toggle" -> "Failed to update status. Please try again."
      [] op = "delete" -> "Failed to delete task. Please try again."
      [] op = "clear"  -> "Failed to clear todos. Please try again."

\* C11: when the fetch of fetchTodos, addTodo, editTodo, toggleTodoStatus,
\* deleteTodo or clearAllTodos is rejected or answered with a non-ok status,
\* the handler shows its error banner (the banner is visible, with the
\* handler's message, and its timeout is started) and sends no request.
C11_FailureShowsBanner ==
    [][\A resp \in Taken :
         ~Ok(resp) =>
            /\ alertShown'
            /\ alertMsg' = ErrorBanner(resp.op)
            /\ timers' = timers + 1
            /\ Sent = {}]_vars

\* the banner of a toggle that the backend refused, with nothing in flight
C11_Witness ==
    /\ alertShown
    /\ alertMsg = ErrorBanner("toggle")
    /\ requests = {} /\ responses = {}
    /\ ~dbUp
    /\ todos # <<>>

\* C12: the timeouts all have the same delay, so they run out in the order
\* in which the banners were shown, and the timeout of the banner shown last
\* is pending exactly while some timeout is.  The banner is visible while
\* the timeout of the banner shown last is pending, and hidden once it has
\* run out.
C12_BannerVisibleForItsDelay == alertShown <=> timers > 0

----------------------------------------------------------------------------
(* Properties of the client's requests *)

\* the user actions that reach the network are a click on the submit button
\* or Enter with a task in the input, a toggle of a cached record, and a
\* click on the dialog's confirm button
\* C13: each such action puts exactly one request on the wire, whatever is
\* in flight already.
C13_OneRequestPerAction ==
    [][Sent # {} => Cardinality(Sent) = 1]_vars

\* the task input holds nothing, or blanks only
Blank == trim(taskInput) = EmptyText

\* a click on the submit button, or Enter, runs handleAddTodo on a blank
\* input: nothing is sent and the banner is shown once
Refused(ls) == Calls(ls) = <<>> /\ Refusals(ls) = 1

\* C14 as stated: with a blank input, a click and the Enter key both run
\* handleAddTodo, which sends nothing and shows 'Please enter a task'.
C14_BlankSubmitShowsBanner ==
    Blank => Refused(listeners) /\ Refused(EnterListeners)

\* C14 as amended: no POST is sent with an empty task; with a blank input a
\* click on the submit button in add mode, and Enter when the input holds
\* blanks, run handleAddTodo, which sends nothing and shows the banner;
\* Enter on an input of length 0 runs nothing; a step that shows the banner
\* leaves the cache as it was and sends no POST.
C14_BlankSubmitSendsNothing ==
    /\ [](Blank =>
            /\ ((\A i \in 1..Len(listeners) : listeners[i].kind = "add") =>
                   /\ Calls(listeners) = <<>>
                   /\ Refusals(listeners) = Len(listeners))
            /\ IF taskInput = EmptyText THEN EnterListeners = <<>>
               ELSE Refused(EnterListeners))
    /\ [][
           /\ \A req \in Sent :
               (req.method = "POST" =>
                  /\ ~Blank
                  /\ req.body.task # None
                  /\ trim(req.body.task[1]) # EmptyText)
           /\ ((alertMsg' = "Please enter a task" /\ timers' > timers) =>
                  /\ todos' = todos
                  /\ \A req \in Sent : req.method # "POST")]_vars

\* the banner after a click on a whitespace-only input, with a record in the
\* cache and nothing on the wire
C14_Witness ==
    /\ taskInput = BlankText
    /\ alertShown /\ alertMsg = "Please enter a task"
    /\ todos # <<>>
    /\ requests = {} /\ responses = {}

\* C15: no two positions of the cache hold records with the same identifier.
C15_CacheIdsDistinct ==
    \A i, j \in 1..Len(todos) : i # j => todos[i].id # todos[j].id

\* handleEditTodo has put a handleUpdate on the submit button, and neither
\* its confirm has succeeded (which removes it) nor a later handleEditTodo
\* has replaced it
EditPending == \E i \in 1..Len(listeners) : listeners[i].kind = "update"

\* C16: while an edit is pending, no step calls addTodo, that is, sends the
\* POST of an add.
C16_NoAddWhileEditing ==
    [][EditPending => \A req \in Sent : req.op # "add"]_vars

\* no toggle-complete is waiting for the server or for its continuation
NoTogglePending == \A m \in requests \cup responses : m.op # "toggle"

\* C17: every record starts not completed.  Once the toggles issued have all
\* completed, a record that was toggled an even number of times (twice, for
\* one) is not completed, in the store and in the cache.
C17_TwoTogglesRestore ==
    NoTogglePending =>
       /\ \A i \in 1..Len(store) :
              ~flips[store[i].id] => ~store[i].completed
       /\ \A j \in 1..Len(todos) :
              ~flips[todos[j].id] => ~todos[j].completed

\* C18: a step that sends requests leaves the cache as it is, and so does
\* the continuation of a request that was rejected or answered with a
\* non-ok status, whichever of the six operations sent it; after a failed
\* confirm-edit the submit button still has the handleUpdate of that record
\* as its one listener, shows the check icon, and the input keeps its text.
C18_FailureKeepsCache ==
    [][
       /\ (Sent # {} => todos' = todos)
       /\ \A resp \in Taken :
            (~Ok(resp) =>
               /\ todos' = todos
               /\ rendered' = rendered
               /\ (resp.op = "edit" =>
                     /\ listeners' = listeners
                     /\ Len(listeners') = 1
                     /\ listeners'[1].kind = "update"
                     /\ listeners'[1].id = resp.id
                     /\ addBtnHtml' = "check"
                     /\ taskInput' = taskInput))]_vars

\* a confirm-edit has failed: its banner, the button still in edit mode and
\* the loaded cache
C18_Witness ==
    /\ alertMsg = ErrorBanner("edit")
    /\ requests = {} /\ responses = {}
    /\ Len(listeners) = 1 /\ listeners[1].kind = "update"
    /\ addBtnHtml = "check"
    /\ todos # <<>>

\* C19: when the submit button has one click listener, it shows the check
\* icon exactly if that listener is a handleUpdate, and its original add
\* label exactly if it is handleAddTodo.
C19_IconMatchesBehaviour ==
    Len(listeners) = 1 =>
       /\ addBtnHtml = "check" <=> listeners[1].kind = "update"
       /\ addBtnHtml = "add" <=> listeners[1].kind = "add"

====
